---------------------------- MODULE Spec2Model ----------------------------
(***************************************************************************)
(* A model of the HTTP server of src/main.rs and of its wire-format core   *)
(* src/http.rs.                                                             *)
(*                                                                         *)
(* Text.  A Rust String / &str is a sequence of characters; a character is *)
(* a one-character TLA+ string ("G", " ", "\r"), the character U+0000 is   *)
(* the token "NUL" and the two-byte character U+00E9 is the token "U+00E9".*)
(* A byte sequence (Vec<u8>, &[u8], the bytes on a socket or in a file) is *)
(* a sequence of byte tokens: an ASCII byte is written as its character,   *)
(* the bytes 0xC3, 0xA9 and 0xFF are "xC3", "xA9" and "xFF".  as_bytes and *)
(* from_utf8 convert between the two (U+00E9 is 0xC3 0xA9 in UTF-8; within *)
(* this byte alphabet no other multi-byte sequence is valid UTF-8).        *)
(***************************************************************************)
EXTENDS Integers, Sequences, FiniteSets, TLC

VARIABLES
    phase, input, wire, output,
    store, fs, pc, got, buf, req, resp, out, fail, nreads, afterFail

codecVars == <<phase, input, wire, output>>
serverVars == <<store, fs, pc, got, buf, req, resp, out, fail, nreads, afterFail>>
vars == <<phase, input, wire, output,
          store, fs, pc, got, buf, req, resp, out, fail, nreads, afterFail>>

---------------------------------------------------------------------------
(* Bounds of the model.                                                    *)

\* Tokens of a generated start line.
MaxTokens == 3
\* Header lines of a generated header block.
MaxHeaderLines == 2
\* Headers of a generated (method, path, headers, body) tuple.
MaxHeaders == 2
\* Characters of a generated response body.
MaxBody == 12
\* Connections the listener accepts.
NumConns == 2
\* Length of the read buffer of handle_request ([0; 1024] in main.rs:28),
\* scaled down; the generated requests are sized relative to it.
BufSize == 44

---------------------------------------------------------------------------
(* Text helpers: the std operations the source calls on str.               *)

None == [some |-> FALSE]
Some(v) == [some |-> TRUE, val |-> v]

SetMin(S) == CHOOSE m \in S : \A n \in S : m <= n

\* str::find: the index of the first occurrence of pat in s, 0 when absent.
Find(s, pat) ==
    LET at == {i \in 1..(Len(s) - Len(pat) + 1) : SubSeq(s, i, i + Len(pat) - 1) = pat}
    IN  IF at = {} THEN 0 ELSE SetMin(at)

\* str::split_once: the text before and after the first occurrence of pat.
SplitOnce(s, pat) ==
    LET i == Find(s, pat)
    IN  IF i = 0 THEN [found |-> FALSE]
        ELSE [found |-> TRUE,
              before |-> SubSeq(s, 1, i - 1),
              after |-> SubSeq(s, i + Len(pat), Len(s))]

\* str::split(pat).collect(): the pieces between the non-overlapping
\* occurrences of pat, taken left to right; always at least one piece.
RECURSIVE Split(_, _)
Split(s, pat) ==
    LET i == Find(s, pat)
    IN  IF i = 0 THEN <<s>>
        ELSE <<SubSeq(s, 1, i - 1)>> \o Split(SubSeq(s, i + Len(pat), Len(s)), pat)

\* str::replace(pat, ""): s without the non-overlapping occurrences of pat.
RECURSIVE Remove(_, _)
Remove(s, pat) ==
    LET i == Find(s, pat)
    IN  IF i = 0 THEN s
        ELSE SubSeq(s, 1, i - 1) \o Remove(SubSeq(s, i + Len(pat), Len(s)), pat)

\* str::starts_with.
StartsWith(s, p) == Len(p) <= Len(s) /\ SubSeq(s, 1, Len(p)) = p

\* char::is_whitespace (the White_Space characters of the model's alphabet).
WhiteSpace == {" ", "\t", "\n", "\f", "\r"}

\* str::trim: s without its leading and trailing whitespace.
Trim(s) ==
    LET keep == {i \in 1..Len(s) : s[i] \notin WhiteSpace}
    IN  IF keep = {} THEN <<>>
        ELSE SubSeq(s, SetMin(keep), CHOOSE m \in keep : \A n \in keep : n <= m)

Digit == <<"0", "1", "2", "3", "4", "5", "6", "7", "8", "9">>

\* Display for usize: the decimal digits of n, no leading zero.
RECURSIVE ToDecimal(_)
ToDecimal(n) ==
    IF n < 10 THEN <<Digit[n + 1]>>
    ELSE ToDecimal(n \div 10) \o <<Digit[(n % 10) + 1]>>

\* The UTF-8 encoding of one character.
Utf8(c) == IF c = "U+00E9" THEN <<"xC3", "xA9">> ELSE <<c>>

\* str::as_bytes: the UTF-8 bytes of a string, the encodings of its
\* characters one after the other (computed by halves).
RECURSIVE AsBytes(_)
AsBytes(s) ==
    IF Len(s) = 0 THEN <<>>
    ELSE IF Len(s) = 1 THEN Utf8(s[1])
    ELSE LET half == Len(s) \div 2
         IN  AsBytes(SubSeq(s, 1, half)) \o AsBytes(SubSeq(s, half + 1, Len(s)))

\* The mutant below counts characters.
StrLenChars(s) == Len(s)

\* String::len: the length of a string in bytes.
StrLen(s) == Len(AsBytes(s))

\* std::str::from_utf8: the string a byte sequence encodes, or an error.
\* Over the model's bytes a sequence is valid UTF-8 iff it has no 0xFF and
\* its 0xC3 and 0xA9 come only as the pair 0xC3 0xA9, which is U+00E9; every
\* other byte is the character itself.
FromUtf8(b) ==
    LET valid ==
            \A i \in 1..Len(b) :
                /\ b[i] # "xFF"
                /\ b[i] = "xC3" => (i < Len(b) /\ b[i + 1] = "xA9")
                /\ b[i] = "xA9" => (i > 1 /\ b[i - 1] = "xC3")
        first == SelectSeq(b, LAMBDA x : x # "xA9")
    IN  IF valid
        THEN [ok |-> TRUE,
              str |-> [i \in 1..Len(first) |->
                          IF first[i] = "xC3" THEN "U+00E9" ELSE first[i]]]
        ELSE [ok |-> FALSE]

CRLF == <<"\r", "\n">>
CRLFCRLF == <<"\r", "\n", "\r", "\n">>

---------------------------------------------------------------------------
(* The content model: src/http.rs.                                         *)

\* The mutant below matches the method token without regard to case.
MethodFromStrAnyCase(s) ==
    IF s \in {<<"G", "E", "T">>, <<"g", "e", "t">>} THEN [ok |-> TRUE, val |-> "Get"]
    ELSE IF s = <<"P", "O", "S", "T">> THEN [ok |-> TRUE, val |-> "Post"]
    ELSE [ok |-> FALSE]

\* HttpMethod::from_str.
MethodFromStr(s) ==
    IF s = <<"G", "E", "T">> THEN [ok |-> TRUE, val |-> "Get"]
    ELSE IF s = <<"P", "O", "S", "T">> THEN [ok |-> TRUE, val |-> "Post"]
    ELSE [ok |-> FALSE]

HttpStatusCode == {"Ok", "Created", "NotFound"}

\* HttpStatusCode::canonical_reason.
CanonicalReason(status) ==
    CASE status = "Ok" -> <<"2", "0", "0", " ", "O", "K">>
      [] status = "Created" -> <<"2", "0", "1", " ", "C", "r", "e", "a", "t", "e", "d">>
      [] status = "NotFound" ->
            <<"4", "0", "4", " ", "N", "o", "t", " ", "F", "o", "u", "n", "d">>

HttpContentType == {"ApplicationJson", "ApplicationOctetStream", "TextPlain"}

\* HttpContentType::as_str.
AsStr(ct) ==
    CASE ct = "ApplicationJson" ->
            <<"a", "p", "p", "l", "i", "c", "a", "t", "i", "o", "n", "/", "j", "s", "o", "n">>
      [] ct = "ApplicationOctetStream" ->
            <<"a", "p", "p", "l", "i", "c", "a", "t", "i", "o", "n", "/",
              "o", "c", "t", "e", "t", "-", "s", "t", "r", "e", "a", "m">>
      [] ct = "TextPlain" -> <<"t", "e", "x", "t", "/", "p", "l", "a", "i", "n">>

\* HttpContentType::from_str.
ContentTypeFromStr(s) ==
    IF s = <<"a", "p", "p", "l", "i", "c", "a", "t", "i", "o", "n", "/", "j", "s", "o", "n">>
    THEN [ok |-> TRUE, val |-> "ApplicationJson"]
    ELSE IF s = <<"a", "p", "p", "l", "i", "c", "a", "t", "i", "o", "n", "/",
                  "o", "c", "t", "e", "t", "-", "s", "t", "r", "e", "a", "m">>
    THEN [ok |-> TRUE, val |-> "ApplicationOctetStream"]
    ELSE IF s = <<"t", "e", "x", "t", "/", "p", "l", "a", "i", "n">>
    THEN [ok |-> TRUE, val |-> "TextPlain"]
    ELSE [ok |-> FALSE]

---------------------------------------------------------------------------
(* The request decoder: HttpRequest::new and its helpers.                  *)

Panic(msg) == [ok |-> FALSE, panic |-> msg]

\* HttpRequest::parse_start_line.  The tuple's first component is built
\* first: an unknown method panics before res[1] is indexed.
ParseStartLine(line) ==
    LET res == Split(line, <<" ">>)
        method == MethodFromStr(res[1])
    IN  IF ~method.ok THEN Panic("Unexpected HTTP method")
        ELSE IF Len(res) < 2 THEN Panic("index out of bounds")
        ELSE [ok |-> TRUE, method |-> method.val, path |-> res[2]]

\* The mutant below stores the value as it stands after the colon.
HeaderValueUntrimmed(value) == value

\* value.trim().to_string() of parse_headers.
HeaderValue(value) == Trim(value)

\* The mutant below keeps the value a key already has.
InsertFirstWins(map, key, value) ==
    IF key \in DOMAIN map THEN map
    ELSE [k \in DOMAIN map \cup {key} |-> IF k = key THEN value ELSE map[k]]

\* HashMap::insert.
Insert(map, key, value) ==
    [k \in DOMAIN map \cup {key} |-> IF k = key THEN value ELSE map[k]]

\* HttpRequest::parse_headers: the loop over the header lines, in order.
RECURSIVE ParseHeadersInto(_, _)
ParseHeadersInto(headersMap, lines) ==
    IF lines = <<>> THEN headersMap
    ELSE LET kv == SplitOnce(Head(lines), <<":">>)
         IN  ParseHeadersInto(
                 IF kv.found THEN Insert(headersMap, kv.before, HeaderValue(kv.after))
                 ELSE headersMap,
                 Tail(lines))

ParseHeaders(lines) == ParseHeadersInto(<<>>, lines)

\* The mutant below drops the NUL characters of the body.
ParseContentStripped(content) ==
    LET kept == SelectSeq(content, LAMBDA c : c # "NUL")
    IN  IF kept = <<>> THEN None
        ELSE Some([content |-> kept, content_type |-> "TextPlain"])

\* HttpRequest::parse_content.
ParseContent(content) ==
    IF content = <<>> THEN None
    ELSE Some([content |-> content, content_type |-> "TextPlain"])

\* HttpRequest::new.
HttpRequestNew(raw_request) ==
    LET parts == SplitOnce(raw_request, CRLFCRLF)
    IN  IF ~parts.found THEN Panic("unexpected HTTP request format")
        ELSE LET lines == Split(parts.before, CRLF)
                 start == ParseStartLine(lines[1])
             IN  IF ~start.ok THEN start
                 ELSE [ok |-> TRUE,
                       request |-> [method |-> start.method,
                                    path |-> start.path,
                                    headers |-> ParseHeaders(Tail(lines)),
                                    content |-> ParseContent(parts.after)]]

---------------------------------------------------------------------------
(* The response encoder: Display for HttpResponse.                         *)

\* The mutant below writes Content-Length before Content-Type.
ToStringLengthFirst(response) ==
    IF response.content.some
    THEN <<"H", "T", "T", "P", "/", "1", ".", "1", " ">>
         \o CanonicalReason(response.status_code) \o CRLF
         \o <<"C", "o", "n", "t", "e", "n", "t", "-", "L", "e", "n", "g", "t", "h", ":", " ">>
         \o ToDecimal(StrLen(response.content.val.content)) \o CRLF
         \o <<"C", "o", "n", "t", "e", "n", "t", "-", "T", "y", "p", "e", ":", " ">>
         \o AsStr(response.content.val.content_type) \o CRLFCRLF
         \o response.content.val.content
    ELSE <<"H", "T", "T", "P", "/", "1", ".", "1", " ">>
         \o CanonicalReason(response.status_code) \o CRLFCRLF

\* response.to_string(): fmt of Display for HttpResponse.
ResponseToString(response) ==
    IF response.content.some
    THEN <<"H", "T", "T", "P", "/", "1", ".", "1", " ">>
         \o CanonicalReason(response.status_code) \o CRLF
         \o <<"C", "o", "n", "t", "e", "n", "t", "-", "T", "y", "p", "e", ":", " ">>
         \o AsStr(response.content.val.content_type) \o CRLF
         \o <<"C", "o", "n", "t", "e", "n", "t", "-", "L", "e", "n", "g", "t", "h", ":", " ">>
         \o ToDecimal(StrLen(response.content.val.content)) \o CRLFCRLF
         \o response.content.val.content
    ELSE <<"H", "T", "T", "P", "/", "1", ".", "1", " ">>
         \o CanonicalReason(response.status_code) \o CRLFCRLF

---------------------------------------------------------------------------
(* Generated inputs of the decoder and of the encoder.                     *)

SeqsUpTo(S, n) == UNION {[1..k -> S] : k \in 0..n}

RECURSIVE Repeat(_, _)
Repeat(c, n) == IF n = 0 THEN <<>> ELSE <<c>> \o Repeat(c, n - 1)

\* The pieces of ps, each preceded by sep.
RECURSIVE EachAfter(_, _)
EachAfter(ps, sep) ==
    IF ps = <<>> THEN <<>> ELSE sep \o Head(ps) \o EachAfter(Tail(ps), sep)

\* The pieces of ps with sep between them.
JoinWith(ps, sep) ==
    IF ps = <<>> THEN <<>> ELSE Head(ps) \o EachAfter(Tail(ps), sep)

Version == <<"H", "T", "T", "P", "/", "1", ".", "1">>
ContentTypeJsonLine ==
    <<"C", "o", "n", "t", "e", "n", "t", "-", "T", "y", "p", "e", ":", " ",
      "a", "p", "p", "l", "i", "c", "a", "t", "i", "o", "n", "/", "j", "s", "o", "n">>

StartTokens ==
    {<<"G", "E", "T">>, <<"P", "O", "S", "T">>, <<"g", "e", "t">>, <<>>, <<"/", "a">>}
StartLines == {JoinWith(ts, <<" ">>) : ts \in SeqsUpTo(StartTokens, MaxTokens)}
PlainStartLines ==
    {<<"G", "E", "T", " ", "/", "a", " ">> \o Version,
     <<"P", "O", "S", "T", " ", "/", "a", " ">> \o Version}

HeaderLineSamples ==
    {<<"k", ":", "v">>, <<"k", ":", " ", "w", " ">>, <<"k", " ", ":", "v">>,
     <<"k", ":", "v", ":", "w">>, <<"k">>, <<>>, <<"j", ":", "\t", "\r", "x", "\n">>,
     ContentTypeJsonLine}
HeaderBlocks == SeqsUpTo(HeaderLineSamples, MaxHeaderLines)
PlainHeaderBlocks == {<<>>, << <<"k", ":", "v">> >>}

Terminators == {CRLFCRLF, CRLF, <<"\n", "\n">>}
RawBodies ==
    {<<>>, <<"b">>, <<"NUL", "NUL">>, <<"U+00E9">> \o CRLFCRLF \o <<"c">>}

RawFrom(starts, blocks) ==
    {s \o EachAfter(b, CRLF) \o t \o body :
        s \in starts, b \in blocks, t \in Terminators, body \in RawBodies}

\* The raw texts handed to the decoder.
RawInputs == RawFrom(StartLines, PlainHeaderBlocks) \cup RawFrom(PlainStartLines, HeaderBlocks)

Paths == {<<>>, <<"/", "a", "?", "b", "#">>, <<"/", "\r">>}
Keys == {<<"k">>, <<"k", " ">>, <<>>, <<"\n", "j">>}
Values == {<<"v">>, <<" ", "v", "\t">>, <<"v", ":", "w", "\r">>}
HeaderLists ==
    {hs \in SeqsUpTo(Keys \X Values, MaxHeaders) :
        \A i, j \in 1..Len(hs) : i # j => hs[i][1] # hs[j][1]}

\* The (method, path, headers, body) tuples of a valid request: the method is
\* GET or POST, the path has no space and no CRLF, a key has no colon and no
\* CRLF, a value has no CRLF, and no key occurs twice.
Tuples ==
    [method : {<<"G", "E", "T">>, <<"P", "O", "S", "T">>}, path : Paths,
     headers : HeaderLists, body : {<<>>, <<"NUL">> \o CRLFCRLF}]

\* The request text of a tuple:
\* <METHOD> <PATH> HTTP/1.1 CRLF (<key>: <value> CRLF)* CRLF <body>.
RECURSIVE HeaderText(_)
HeaderText(hs) ==
    IF hs = <<>> THEN <<>>
    ELSE Head(hs)[1] \o <<":", " ">> \o Head(hs)[2] \o CRLF \o HeaderText(Tail(hs))

RequestText(t) ==
    t.method \o <<" ">> \o t.path \o <<" ">> \o Version \o CRLF
    \o HeaderText(t.headers) \o CRLF \o t.body

BodyAlphabet == {"a", "U+00E9", "\r", "NUL"}
ShortLen == 3
LongLens == {MaxBody - 3, MaxBody - 2, MaxBody - 1, MaxBody, 99, 100, 101}
ResponseBodies ==
    SeqsUpTo(BodyAlphabet, ShortLen)
    \cup {Repeat(c, n) : c \in {"a", "U+00E9"}, n \in LongLens}
    \cup {<<"U+00E9">> \o Repeat("a", n) : n \in LongLens}

\* The responses handed to the encoder.
Responses ==
    [status_code : HttpStatusCode, content : {None}]
    \cup [status_code : HttpStatusCode,
          content : {Some(c) : c \in [content : ResponseBodies, content_type : HttpContentType]}]

---------------------------------------------------------------------------
(* The codec on its own: one decode or one encode of a generated input.    *)

Conns == 1..NumConns
NoBytes == <<>>

ServerIdle ==
    /\ store = [has_arg |-> FALSE, has_dir |-> FALSE, files |-> <<>>]
    /\ fs = <<>>
    /\ pc = [c \in Conns |-> "idle"]
    /\ got = [c \in Conns |-> NoBytes]
    /\ buf = [c \in Conns |-> NoBytes]
    /\ req = [c \in Conns |-> None]
    /\ resp = [c \in Conns |-> None]
    /\ out = [c \in Conns |-> NoBytes]
    /\ fail = [c \in Conns |-> "none"]
    /\ nreads = [c \in Conns |-> 0]
    /\ afterFail = [c \in Conns |-> FALSE]

CodecInit ==
    /\ \/ /\ input \in [kind : {"raw"}, raw : RawInputs]
          /\ phase = "wire"
          /\ wire = input.raw
       \/ /\ input \in [kind : {"tuple"}, tuple : Tuples]
          /\ phase = "input"
          /\ wire = <<>>
       \/ /\ input \in [kind : {"response"}, response : Responses]
          /\ phase = "input"
          /\ wire = <<>>
    /\ output = None
    /\ ServerIdle

\* The request text of the drawn tuple is put on the wire.
WriteRequest ==
    /\ phase = "input" /\ input.kind = "tuple"
    /\ wire' = RequestText(input.tuple)
    /\ phase' = "wire"
    /\ UNCHANGED <<input, output>>
    /\ UNCHANGED serverVars

\* HttpRequest::new(raw_request) on the text on the wire.
DecodeText ==
    /\ phase = "wire"
    /\ output' = HttpRequestNew(wire)
    /\ phase' = "decoded"
    /\ UNCHANGED <<input, wire>>
    /\ UNCHANGED serverVars

\* response.to_string().as_str().as_bytes() of the drawn response.
EncodeResponse ==
    /\ phase = "input" /\ input.kind = "response"
    /\ wire' = AsBytes(ResponseToString(input.response))
    /\ phase' = "encoded"
    /\ UNCHANGED <<input, output>>
    /\ UNCHANGED serverVars

CodecNext == WriteRequest \/ DecodeText \/ EncodeResponse

SpecCodec == CodecInit /\ [][CodecNext]_vars

---------------------------------------------------------------------------
(* The server: main, handle_request, flush_response, build_ok_response and *)
(* handle_file_request of src/main.rs.  One handler thread per accepted    *)
(* connection; the threads share the storage directory and nothing else.   *)
(*                                                                         *)
(* store is the environment the process starts in: whether a storage       *)
(* directory was given as args[2], whether files can be created in it, and *)
(* the files it holds at startup.  fs maps the names of the files of the   *)
(* directory to their bytes.  Per connection: pc is the position of its    *)
(* handler thread, got the bytes its read returned, buf its buffer, req    *)
(* the decoded request, resp the response built, out the bytes written to  *)
(* the stream, fail the reason its thread panicked, nreads the reads made, *)
(* afterFail whether it was accepted after a decoder failure.              *)

Slash == <<"/">>
EchoPrefix == <<"/", "e", "c", "h", "o", "/">>
UserAgentPrefix == <<"/", "u", "s", "e", "r", "-", "a", "g", "e", "n", "t">>
FilesPrefix == <<"/", "f", "i", "l", "e", "s">>
FilesDir == <<"/", "f", "i", "l", "e", "s", "/">>
UserAgentKey == <<"U", "s", "e", "r", "-", "A", "g", "e", "n", "t">>

\* build_ok_response.
BuildOkResponse(content) ==
    [status_code |-> "Ok",
     content |-> IF content.some
                 THEN Some([content |-> content.val, content_type |-> "TextPlain"])
                 ELSE None]

NotFoundResponse == [status_code |-> "NotFound", content |-> None]
CreatedResponse == [status_code |-> "Created", content |-> None]

\* The mutant below takes every path that starts with "/" for the root.
RouteOfRootPrefix(request) ==
    IF StartsWith(request.path, Slash)
    THEN [kind |-> "response", response |-> BuildOkResponse(None)]
    ELSE [kind |-> "response", response |-> NotFoundResponse]

\* The route dispatch of handle_request: the response of a route that needs
\* no file, the panic of /user-agent without its header, or the /files route.
RouteOf(request) ==
    IF request.path = Slash
    THEN [kind |-> "response", response |-> BuildOkResponse(None)]
    ELSE IF StartsWith(request.path, EchoPrefix)
    THEN [kind |-> "response",
          response |-> BuildOkResponse(Some(Remove(request.path, EchoPrefix)))]
    ELSE IF StartsWith(request.path, UserAgentPrefix)
    THEN IF UserAgentKey \in DOMAIN request.headers
         THEN [kind |-> "response",
               response |-> BuildOkResponse(Some(request.headers[UserAgentKey]))]
         ELSE [kind |-> "panic", why |-> "failed to get user-agent"]
    ELSE IF StartsWith(request.path, FilesPrefix)
    THEN [kind |-> "files"]
    ELSE [kind |-> "response", response |-> NotFoundResponse]

\* request.path.replace("/files/", "") of handle_file_request.
FileOf(request) == Remove(request.path, FilesDir)

\* The GET branch of handle_file_request on the files as they are now.
FileGet(files, name) ==
    IF name \in DOMAIN files
    THEN LET text == FromUtf8(files[name])
         IN  IF text.ok
             THEN [kind |-> "response",
                   response |-> [status_code |-> "Ok",
                                 content |-> Some([content |-> text.str,
                                                   content_type |-> "ApplicationOctetStream"])]]
             ELSE [kind |-> "panic", why |-> "invalid content"]
    ELSE [kind |-> "response", response |-> NotFoundResponse]

\* http_content.content.replace('\x00', "").as_bytes() of handle_file_request.
FileBytes(content) == AsBytes(SelectSeq(content, LAMBDA ch : ch # "NUL"))

\* The buffer after a read that returned data: [0; 1024] with data in front.
Filled(data) == data \o Repeat("NUL", BufSize - Len(data))

\* A panic in a handler thread (spawn of main): the thread unwinds and ends;
\* no other thread is touched.  The mutant below ends the whole process:
\* every thread that has not finished is killed and nothing is accepted.
ProcessAborts(c, why) ==
    /\ pc' = [d \in Conns |-> IF d = c THEN "panicked"
                              ELSE IF pc[d] \in {"done", "panicked"} THEN pc[d]
                              ELSE "killed"]
    /\ fail' = [fail EXCEPT ![c] = why]

ThreadPanics(c, why) ==
    /\ pc' = [pc EXCEPT ![c] = "panicked"]
    /\ fail' = [fail EXCEPT ![c] = why]

\* The requests of the clients, as the bytes one read returns.
RequestBytes(method, path, headerText, body) ==
    AsBytes(method \o <<" ">> \o path \o <<" ">> \o Version \o CRLF \o headerText \o CRLF \o body)
GetText == <<"G", "E", "T">>
PostText == <<"P", "O", "S", "T">>
FilePath == <<"/", "f", "i", "l", "e", "s", "/", "f">>
\* A POST to /files/f that fills the buffer to its last byte, so that no
\* NUL follows the blank line.
FullPost ==
    LET bare == RequestBytes(PostText, FilePath, <<"X", ":">> \o CRLF, <<>>)
    IN  RequestBytes(PostText, FilePath,
                     <<"X", ":">> \o Repeat("p", BufSize - Len(bare)) \o CRLF, <<>>)
ClientData ==
    {RequestBytes(GetText, Slash, <<>>, <<>>),
     RequestBytes(GetText, EchoPrefix \o <<"a">> \o EchoPrefix \o <<"b">>, <<>>, <<>>),
     RequestBytes(GetText, UserAgentPrefix, UserAgentKey \o <<":", " ", "x">> \o CRLF, <<>>),
     RequestBytes(GetText, UserAgentPrefix, <<>>, <<>>),
     RequestBytes(GetText, FilePath, <<>>, <<>>),
     RequestBytes(PostText, FilePath, <<>>, <<"h", "U+00E9">>),
     FullPost,
     RequestBytes(GetText, <<"/", "n", "o">>, <<>>, <<>>),
     RequestBytes(<<"P", "U", "T">>, Slash, <<>>, <<>>),
     <<"G", "E", "T", " ", "/">>,
     RequestBytes(GetText, Slash, <<>>, <<>>) \o <<"xFF">>}

Stores ==
    {[has_arg |-> FALSE, has_dir |-> FALSE, files |-> <<>>],
     [has_arg |-> TRUE, has_dir |-> FALSE, files |-> <<>>],
     [has_arg |-> TRUE, has_dir |-> TRUE, files |-> (<<"f">> :> <<"o", "l", "d">>)],
     [has_arg |-> TRUE, has_dir |-> TRUE, files |-> (<<"f">> :> <<"xFF">>)]}

Init ==
    /\ phase = "off" /\ input = None /\ wire = <<>> /\ output = None
    /\ store \in Stores
    /\ fs = store.files
    /\ pc = [c \in Conns |-> "idle"]
    /\ got = [c \in Conns |-> NoBytes]
    /\ buf = [c \in Conns |-> NoBytes]
    /\ req = [c \in Conns |-> None]
    /\ resp = [c \in Conns |-> None]
    /\ out = [c \in Conns |-> NoBytes]
    /\ fail = [c \in Conns |-> "none"]
    /\ nreads = [c \in Conns |-> 0]
    /\ afterFail = [c \in Conns |-> FALSE]

\* main: listener.incoming() yields the next connection and a thread is
\* spawned for it, which starts handle_request with a zeroed buffer.
\* Connections are accepted one after the other.
Accept(c) ==
    /\ pc[c] = "idle"
    /\ \A d \in Conns : d < c => pc[d] # "idle"
    /\ pc' = [pc EXCEPT ![c] = "reading"]
    /\ buf' = [buf EXCEPT ![c] = Filled(NoBytes)]
    /\ afterFail' = [afterFail EXCEPT ![c] = \E d \in Conns : fail[d] = "decode"]
    /\ UNCHANGED <<store, fs, got, req, resp, out, fail, nreads>>
    /\ UNCHANGED codecVars

\* The mutant below reads into one buffer that all the threads share.
ReadShared(c, data) ==
    /\ pc[c] = "reading"
    /\ got' = [got EXCEPT ![c] = data]
    /\ buf' = [d \in Conns |-> Filled(data)]
    /\ nreads' = [nreads EXCEPT ![c] = @ + 1]
    /\ pc' = [pc EXCEPT ![c] = "parsing"]
    /\ UNCHANGED <<store, fs, req, resp, out, fail, afterFail>>
    /\ UNCHANGED codecVars

\* handle_request: stream.read(&mut buf) returns data.
Read(c, data) ==
    /\ pc[c] = "reading"
    /\ got' = [got EXCEPT ![c] = data]
    /\ buf' = [buf EXCEPT ![c] = Filled(data)]
    /\ nreads' = [nreads EXCEPT ![c] = @ + 1]
    /\ pc' = [pc EXCEPT ![c] = "parsing"]
    /\ UNCHANGED <<store, fs, req, resp, out, fail, afterFail>>
    /\ UNCHANGED codecVars

\* handle_request: stream.read fails and expect panics.
ReadFails(c) ==
    /\ pc[c] = "reading"
    /\ nreads' = [nreads EXCEPT ![c] = @ + 1]
    /\ ThreadPanics(c, "Failed to read stream")
    /\ UNCHANGED <<store, fs, got, buf, req, resp, out, afterFail>>
    /\ UNCHANGED codecVars

\* handle_request: std::str::from_utf8(&buf), then HttpRequest::new.
Parse(c) ==
    /\ pc[c] = "parsing"
    /\ LET text == FromUtf8(buf[c])
           decoded == HttpRequestNew(text.str)
       IN  IF ~text.ok
           THEN ThreadPanics(c, "Invalid UTF-8 sequence") /\ UNCHANGED req
           ELSE IF ~decoded.ok
           THEN ThreadPanics(c, "decode") /\ UNCHANGED req
           ELSE /\ req' = [req EXCEPT ![c] = Some(decoded.request)]
                /\ pc' = [pc EXCEPT ![c] = "routing"]
                /\ UNCHANGED fail
    /\ UNCHANGED <<store, fs, got, buf, resp, out, nreads, afterFail>>
    /\ UNCHANGED codecVars

\* The response is built and the thread goes on to flush_response.
Respond(c, response) ==
    /\ resp' = [resp EXCEPT ![c] = Some(response)]
    /\ pc' = [pc EXCEPT ![c] = "flushing"]
    /\ UNCHANGED fail

\* The outcome of a route: a response or a panic.
Conclude(c, result) ==
    IF result.kind = "panic" THEN ThreadPanics(c, result.why) /\ UNCHANGED resp
    ELSE Respond(c, result.response)

\* handle_request: the route dispatch, and for /files handle_file_request
\* up to and including its first file operation: args[2], then
\* std::fs::read for GET, File::create for any other method.
Route(c) ==
    /\ pc[c] = "routing"
    /\ LET request == req[c].val
           route == RouteOf(request)
       IN  IF route.kind # "files"
           THEN Conclude(c, route) /\ UNCHANGED fs
           ELSE IF ~store.has_arg
           THEN ThreadPanics(c, "index out of bounds") /\ UNCHANGED <<resp, fs>>
           ELSE IF request.method = "Get"
           THEN Conclude(c, FileGet(fs, FileOf(request))) /\ UNCHANGED fs
           ELSE IF ~store.has_dir
           THEN ThreadPanics(c, "create") /\ UNCHANGED <<resp, fs>>
           ELSE /\ fs' = [n \in DOMAIN fs \cup {FileOf(request)} |->
                             IF n = FileOf(request) THEN NoBytes ELSE fs[n]]
                /\ pc' = [pc EXCEPT ![c] = "file_write"]
                /\ UNCHANGED <<resp, fail>>
    /\ UNCHANGED <<store, got, buf, req, out, nreads, afterFail>>
    /\ UNCHANGED codecVars

\* handle_file_request after File::create: write_all of the content without
\* its NUL characters, or the panic of a request without content.
FileWrite(c) ==
    /\ pc[c] = "file_write"
    /\ LET request == req[c].val
       IN  IF request.content.some
           THEN /\ fs' = [fs EXCEPT ![FileOf(request)] = FileBytes(request.content.val.content)]
                /\ Respond(c, CreatedResponse)
           ELSE ThreadPanics(c, "No content found") /\ UNCHANGED <<resp, fs>>
    /\ UNCHANGED <<store, got, buf, req, out, nreads, afterFail>>
    /\ UNCHANGED codecVars

\* handle_file_request: write_all fails and expect panics; the file stays
\* as File::create left it.
FileWriteFails(c) ==
    /\ pc[c] = "file_write"
    /\ req[c].val.content.some
    /\ ThreadPanics(c, "failed to write to file")
    /\ UNCHANGED <<store, fs, got, buf, req, resp, out, nreads, afterFail>>
    /\ UNCHANGED codecVars

\* flush_response: stream.write of the bytes of response.to_string().
Flush(c) ==
    /\ pc[c] = "flushing"
    /\ out' = [out EXCEPT ![c] = AsBytes(ResponseToString(resp[c].val))]
    /\ pc' = [pc EXCEPT ![c] = "done"]
    /\ UNCHANGED <<store, fs, got, buf, req, resp, fail, nreads, afterFail>>
    /\ UNCHANGED codecVars

\* flush_response: stream.write fails and the thread panics.
FlushFails(c) ==
    /\ pc[c] = "flushing"
    /\ ThreadPanics(c, "failed to write response")
    /\ UNCHANGED <<store, fs, got, buf, req, resp, out, nreads, afterFail>>
    /\ UNCHANGED codecVars

\* The steps of the thread of connection c.
Step(c) ==
    \/ Accept(c)
    \/ \E data \in ClientData : Read(c, data)
    \/ ReadFails(c)
    \/ Parse(c)
    \/ Route(c)
    \/ FileWrite(c)
    \/ FileWriteFails(c)
    \/ Flush(c)
    \/ FlushFails(c)

Next == \E c \in Conns : Step(c)

Spec == Init /\ [][Next]_vars

---------------------------------------------------------------------------
(* Properties of the decoder and of the encoder, stated without the        *)
(* operators of the model above.                                           *)

\* s without its leading whitespace, then without its trailing whitespace,
\* one character at a time.
RECURSIVE StripLeft(_)
StripLeft(s) ==
    IF s # <<>> /\ Head(s) \in {" ", "\t", "\n", "\f", "\r"} THEN StripLeft(Tail(s)) ELSE s
RECURSIVE StripRight(_)
StripRight(s) ==
    IF s # <<>> /\ s[Len(s)] \in {" ", "\t", "\n", "\f", "\r"}
    THEN StripRight(SubSeq(s, 1, Len(s) - 1)) ELSE s
Strip(s) == StripRight(StripLeft(s))

\* pat occurs in s at index i.
OccursAt(s, pat, i) ==
    /\ i >= 1 /\ i + Len(pat) - 1 <= Len(s)
    /\ \A j \in 1..Len(pat) : s[i + j - 1] = pat[j]
Occurs(s, pat) == \E i \in 1..Len(s) : OccursAt(s, pat, i)
\* The index of the first occurrence of pat in s (pat occurs in s).
FirstAt(s, pat) ==
    CHOOSE i \in 1..Len(s) : OccursAt(s, pat, i) /\ \A j \in 1..(i - 1) : ~OccursAt(s, pat, j)
TextBefore(s, pat) == SubSeq(s, 1, FirstAt(s, pat) - 1)
TextAfter(s, pat) == SubSeq(s, FirstAt(s, pat) + Len(pat), Len(s))

\* The start line of a raw text that holds the separator: the text before
\* its first CRLF.
StartLineOf(raw) == TextBefore(raw, <<"\r", "\n">>)
\* The start line has at least 2 tokens when split on single spaces.
TwoTokens(line) == Occurs(line, <<" ">>)
Token0(line) == IF Occurs(line, <<" ">>) THEN TextBefore(line, <<" ">>) ELSE line
KnownMethod(tok) == tok \in {<<"G", "E", "T">>, <<"P", "O", "S", "T">>}
HasSeparator(raw) == Occurs(raw, <<"\r", "\n", "\r", "\n">>)

\* The header lines of an accepted raw text, in order: the lines of the
\* header block after the start line.  A CRLF cannot overlap another, so the
\* lines are the stretches between the occurrences of CRLF.
HeaderBlockOf(raw) == TextBefore(raw, <<"\r", "\n", "\r", "\n">>)
LineStarts(block) == {i + 2 : i \in {j \in 1..Len(block) : OccursAt(block, <<"\r", "\n">>, j)}}
LineAt(block, a) ==
    LET ends == {i \in a..Len(block) : OccursAt(block, <<"\r", "\n">>, i)}
    IN  SubSeq(block, a, (IF ends = {} THEN Len(block) + 1 ELSE SetMin(ends)) - 1)
HasColon(line) == Occurs(line, <<":">>)
KeyOf(line) == TextBefore(line, <<":">>)
ValueOf(line) == Strip(TextAfter(line, <<":">>))
\* The start of the last header line with a colon whose key is k.
LastWithKey(block, k) ==
    CHOOSE a \in LineStarts(block) :
        /\ HasColon(LineAt(block, a)) /\ KeyOf(LineAt(block, a)) = k
        /\ \A b \in LineStarts(block) :
              (HasColon(LineAt(block, b)) /\ KeyOf(LineAt(block, b)) = k) => b <= a

\* C1: decoding the request text of a valid (method, path, headers, body)
\* tuple yields the same method and path, a header mapping that holds
\* exactly the tuple's keys, each with its value stripped of leading and
\* trailing whitespace, and content that carries the body exactly when the
\* body is not empty.
C1_RoundTrip ==
    (phase = "decoded" /\ input.kind = "tuple") =>
        LET t == input.tuple
        IN  /\ output.ok
            /\ output.request.method = (IF t.method = <<"G", "E", "T">> THEN "Get" ELSE "Post")
            /\ output.request.path = t.path
            /\ DOMAIN output.request.headers = {t.headers[i][1] : i \in 1..Len(t.headers)}
            /\ \A i \in 1..Len(t.headers) :
                  output.request.headers[t.headers[i][1]] = Strip(t.headers[i][2])
            /\ output.request.content.some <=> (t.body # <<>>)
            /\ output.request.content.some => output.request.content.val.content = t.body

\* C1 witness: a decoded tuple with two headers, a value that has whitespace
\* around it and a body.
C1_Witness ==
    /\ phase = "decoded" /\ input.kind = "tuple"
    /\ Len(input.tuple.headers) = 2
    /\ \E i \in 1..2 : input.tuple.headers[i][2] = <<" ", "v", "\t">>
    /\ input.tuple.body # <<>>
    /\ output.ok /\ output.request.content.some

\* C2: the decoder returns a request iff the input holds CRLF CRLF, its
\* start line has at least 2 space-separated tokens and token 0 is exactly
\* GET or POST.  Every other input fails: with the unknown-method panic when
\* the separator is there and token 0 is not a method, and with a
\* malformed-request panic (no separator, or no token 1) otherwise.
C2_DecoderAccepts ==
    (phase = "decoded") =>
        LET sep == HasSeparator(wire)
            known == sep /\ KnownMethod(Token0(StartLineOf(wire)))
            two == sep /\ TwoTokens(StartLineOf(wire))
        IN  /\ output.ok <=> (sep /\ two /\ known)
            /\ output.ok => DOMAIN output = {"ok", "request"}
            /\ ~output.ok =>
                  /\ DOMAIN output = {"ok", "panic"}
                  /\ (output.panic = "Unexpected HTTP method") <=> (sep /\ ~known)
                  /\ (output.panic \in {"unexpected HTTP request format",
                                         "index out of bounds"}) <=> (~sep \/ known)

\* C2 witness: a start line that is a method and nothing else.
C2_Witness ==
    /\ phase = "decoded" /\ ~output.ok
    /\ HasSeparator(wire) /\ StartLineOf(wire) = <<"G", "E", "T">>
    /\ output.panic = "index out of bounds"

C7_HeaderParsing ==
    (phase = "decoded" /\ output.ok) =>
        LET block == HeaderBlockOf(wire)
            headers == output.request.headers
        IN  /\ DOMAIN headers =
                  {KeyOf(LineAt(block, a)) :
                      a \in {b \in LineStarts(block) : HasColon(LineAt(block, b))}}
            /\ \A k \in DOMAIN headers :
                  headers[k] = ValueOf(LineAt(block, LastWithKey(block, k)))

\* C7 witness: two header lines with the same key and different values.
C7_Witness ==
    /\ phase = "decoded" /\ output.ok
    /\ LET block == HeaderBlockOf(wire)
       IN  /\ Cardinality(LineStarts(block)) = 2
           /\ \A a \in LineStarts(block) : HasColon(LineAt(block, a))
           /\ \E a, b \in LineStarts(block) :
                 /\ a < b
                 /\ KeyOf(LineAt(block, a)) = KeyOf(LineAt(block, b))
                 /\ ValueOf(LineAt(block, a)) # ValueOf(LineAt(block, b))

\* C5: a decoded request with a body and a Content-Type header naming a
\* known MIME string has the content type that header names.
C5_ContentTypeFromHeader ==
    (phase = "decoded" /\ output.ok /\ output.request.content.some) =>
        LET headers == output.request.headers
            ctKey == <<"C", "o", "n", "t", "e", "n", "t", "-", "T", "y", "p", "e">>
        IN  (ctKey \in DOMAIN headers /\ ContentTypeFromStr(headers[ctKey]).ok) =>
                output.request.content.val.content_type
                    = ContentTypeFromStr(headers[ctKey]).val

\* The reason phrase and the MIME string the wire format gives each case.
ReasonText(status) ==
    CASE status = "Ok" -> <<"2", "0", "0", " ", "O", "K">>
      [] status = "Created" -> <<"2", "0", "1", " ", "C", "r", "e", "a", "t", "e", "d">>
      [] status = "NotFound" ->
            <<"4", "0", "4", " ", "N", "o", "t", " ", "F", "o", "u", "n", "d">>
MimeText(ct) ==
    CASE ct = "ApplicationJson" ->
            <<"a", "p", "p", "l", "i", "c", "a", "t", "i", "o", "n", "/", "j", "s", "o", "n">>
      [] ct = "ApplicationOctetStream" ->
            <<"a", "p", "p", "l", "i", "c", "a", "t", "i", "o", "n", "/",
              "o", "c", "t", "e", "t", "-", "s", "t", "r", "e", "a", "m">>
      [] ct = "TextPlain" -> <<"t", "e", "x", "t", "/", "p", "l", "a", "i", "n">>
StatusLineText(status) ==
    <<"H", "T", "T", "P", "/", "1", ".", "1", " ">> \o ReasonText(status)
IsDigits(d) ==
    /\ d # <<>>
    /\ \A i \in 1..Len(d) : d[i] \in {"0", "1", "2", "3", "4", "5", "6", "7", "8", "9"}

\* The text a byte sequence of the encoder spells (the encoder writes the
\* UTF-8 bytes of a string).
WireText == FromUtf8(wire).str

\* C3: the encoded response is the status line and a blank line when the
\* content is absent; when it is present it is the status line, Content-Type
\* with the MIME string, Content-Length with a decimal number, a blank line
\* and the body, in that order and with nothing else.
C3_ResponseFormat ==
    (phase = "encoded") =>
        LET r == input.response
            text == WireText
        IN  IF ~r.content.some
            THEN text = StatusLineText(r.status_code) \o <<"\r", "\n", "\r", "\n">>
            ELSE LET head == StatusLineText(r.status_code) \o <<"\r", "\n">>
                             \o <<"C", "o", "n", "t", "e", "n", "t", "-", "T", "y", "p", "e",
                                  ":", " ">>
                             \o MimeText(r.content.val.content_type) \o <<"\r", "\n">>
                             \o <<"C", "o", "n", "t", "e", "n", "t", "-", "L", "e", "n", "g",
                                  "t", "h", ":", " ">>
                     foot == <<"\r", "\n", "\r", "\n">> \o r.content.val.content
                 IN  /\ Len(text) > Len(head) + Len(foot)
                     /\ SubSeq(text, 1, Len(head)) = head
                     /\ SubSeq(text, Len(text) - Len(foot) + 1, Len(text)) = foot
                     /\ IsDigits(SubSeq(text, Len(head) + 1, Len(text) - Len(foot)))

\* C3 witness: an encoded 201 response with JSON content.
C3_Witness ==
    /\ phase = "encoded"
    /\ input.response.status_code = "Created"
    /\ input.response.content.some
    /\ input.response.content.val.content_type = "ApplicationJson"
    /\ input.response.content.val.content # <<>>

\* The number a string of decimal digits spells.
DigitValue(c) == CHOOSE n \in 0..9 : Digit[n + 1] = c
RECURSIVE DecimalValue(_)
DecimalValue(d) ==
    IF d = <<>> THEN 0
    ELSE 10 * DecimalValue(SubSeq(d, 1, Len(d) - 1)) + DigitValue(d[Len(d)])

\* The value of the Content-Length header of an encoded response: the text
\* between "Content-Length: " and the blank line.
ContentLengthOf(bytes) ==
    LET lengthKey == <<"C", "o", "n", "t", "e", "n", "t", "-", "L", "e", "n", "g",
                      "t", "h", ":", " ">>
        block == TextBefore(bytes, <<"\r", "\n", "\r", "\n">>)
    IN  TextAfter(block, lengthKey)

\* C4: the decimal value of Content-Length in an encoded response with
\* content is the number of bytes that follow the blank line, and those
\* bytes are the UTF-8 bytes of the body.
C4_ContentLength ==
    (phase = "encoded" /\ input.response.content.some) =>
        LET after == TextAfter(wire, <<"\r", "\n", "\r", "\n">>)
        IN  /\ IsDigits(ContentLengthOf(wire))
            /\ DecimalValue(ContentLengthOf(wire)) = Len(after)
            /\ FromUtf8(after) = [ok |-> TRUE, str |-> input.response.content.val.content]

\* C4 witness: a body of more than 100 bytes with a two-byte character.
C4_Witness ==
    /\ phase = "encoded" /\ input.response.content.some
    /\ \E i \in 1..Len(input.response.content.val.content) :
          input.response.content.val.content[i] = "U+00E9"
    /\ Len(TextAfter(wire, <<"\r", "\n", "\r", "\n">>)) > 100
    /\ Len(TextAfter(wire, <<"\r", "\n", "\r", "\n">>))
          > Len(input.response.content.val.content)

---------------------------------------------------------------------------
(* Properties of the server.                                               *)

\* The handling of one request on its own, against the storage directory as
\* it is at startup: the response, or the panic.
HandleAlone(data, st) ==
    LET text == FromUtf8(Filled(data))
        decoded == HttpRequestNew(text.str)
        route == RouteOf(decoded.request)
    IN  IF ~text.ok THEN [kind |-> "panic", why |-> "Invalid UTF-8 sequence"]
        ELSE IF ~decoded.ok THEN [kind |-> "panic", why |-> "decode"]
        ELSE IF route.kind # "files" THEN route
        ELSE IF ~st.has_arg THEN [kind |-> "panic", why |-> "index out of bounds"]
        ELSE IF decoded.request.method = "Get"
        THEN FileGet(st.files, FileOf(decoded.request))
        ELSE IF ~st.has_dir THEN [kind |-> "panic", why |-> "create"]
        ELSE IF decoded.request.content.some
        THEN [kind |-> "response", response |-> CreatedResponse]
        ELSE [kind |-> "panic", why |-> "No content found"]

\* The failures of the streams and of the disk, which a lone request can
\* meet as well.
IoFailures == {"Failed to read stream", "failed to write response", "failed to write to file"}

\* HandleAlone tabulated over what a connection can have read (nothing, or
\* one of the requests of the clients) and over the storage directories,
\* and the bytes of the response where there is one.
Alone ==
    [data \in ClientData \cup {NoBytes}, st \in Stores |-> HandleAlone(data, st)]
AloneBytes ==
    [data \in ClientData \cup {NoBytes}, st \in Stores |->
        IF Alone[data, st].kind = "response"
        THEN AsBytes(ResponseToString(Alone[data, st].response))
        ELSE NoBytes]

\* Connection c ended as its request handled alone would have.
AsAlone(c) ==
    LET alone == Alone[got[c], store]
    IN  /\ pc[c] = "done" =>
              /\ alone.kind = "response"
              /\ out[c] = AloneBytes[got[c], store]
        /\ (pc[c] = "panicked" /\ fail[c] \notin IoFailures) =>
              /\ alone.kind = "panic"
              /\ alone.why = fail[c]

\* The bytes are a GET request on the /files route.
IsFilesGet(data) ==
    LET text == FromUtf8(Filled(data))
        decoded == HttpRequestNew(text.str)
    IN  /\ text.ok /\ decoded.ok
        /\ decoded.request.method = "Get"
        /\ OccursAt(decoded.request.path, <<"/", "f", "i", "l", "e", "s">>, 1)
FilesGets == {data \in ClientData : IsFilesGet(data)}
IsFilesPost(data) ==
    LET text == FromUtf8(Filled(data))
        decoded == HttpRequestNew(text.str)
    IN  /\ text.ok /\ decoded.ok
        /\ decoded.request.method = "Post"
        /\ OccursAt(decoded.request.path, <<"/", "f", "i", "l", "e", "s">>, 1)

C9_ProcessStops ==
    [][(\E c \in Conns : fail[c] = "decode")
          => \A d \in Conns : (pc'[d] = "done" => pc[d] = "done")]_vars

\* C9 as amended: a request on which the decoder fails ends the handler
\* thread of its own connection and nothing else.  No byte is ever written
\* to that connection, and the step in which the decoder fails leaves the
\* storage and every other connection as they are: the threads being
\* handled go on, and the listener goes on accepting.
C9_OnlyThreadStops ==
    [][\A c \in Conns :
          /\ fail'[c] = "decode" => (pc'[c] = "panicked" /\ out'[c] = <<>>)
          /\ (fail[c] # "decode" /\ fail'[c] = "decode") =>
                /\ fs' = fs
                /\ \A d \in Conns \ {c} :
                      /\ pc'[d] = pc[d] /\ fail'[d] = fail[d]
                      /\ buf'[d] = buf[d] /\ req'[d] = req[d]
                      /\ resp'[d] = resp[d] /\ out'[d] = out[d]]_vars

\* C9 witness: a connection accepted after a decoder failure has been served.
C9_Witness ==
    \E c, d \in Conns :
        /\ fail[c] = "decode" /\ pc[c] = "panicked"
        /\ afterFail[d] /\ pc[d] = "done" /\ out[d] # <<>>

\* The path matches none of the routes.
Unrouted(path) ==
    /\ path # <<"/">>
    /\ ~OccursAt(path, <<"/", "e", "c", "h", "o", "/">>, 1)
    /\ ~OccursAt(path, <<"/", "u", "s", "e", "r", "-", "a", "g", "e", "n", "t">>, 1)
    /\ ~OccursAt(path, <<"/", "f", "i", "l", "e", "s">>, 1)
NotFoundText ==
    <<"H", "T", "T", "P", "/", "1", ".", "1", " ", "4", "0", "4", " ",
      "N", "o", "t", " ", "F", "o", "u", "n", "d", "\r", "\n", "\r", "\n">>

\* C10: a handler thread reads once; bytes are written to its connection
\* only by the one write that ends it, after the request was decoded and
\* the response built, and they are the bytes of that response; a thread
\* that panics has written nothing; and a decoded request whose path matches
\* no route gets the 404 response without content, which only a failing
\* write can keep from the connection.
C10_HandlerOrder ==
    \A c \in Conns :
        /\ nreads[c] = (IF pc[c] \in {"idle", "reading"} THEN 0 ELSE 1)
        /\ out[c] # <<>> => (pc[c] = "done" /\ req[c].some /\ resp[c].some)
        /\ pc[c] = "done" =>
              (out[c] # <<>> /\ FromUtf8(out[c]).str = ResponseToString(resp[c].val))
        /\ pc[c] = "panicked" <=> fail[c] # "none"
        /\ pc[c] = "panicked" => out[c] = <<>>
        /\ resp[c].some => req[c].some
        /\ (req[c].some /\ Unrouted(req[c].val.path)) =>
              \/ pc[c] = "routing" /\ ~resp[c].some
              \/ /\ resp[c] = Some([status_code |-> "NotFound", content |-> None])
                 /\ \/ pc[c] = "flushing"
                    \/ pc[c] = "done" /\ out[c] = NotFoundText
                    \/ pc[c] = "panicked" /\ fail[c] = "failed to write response"

\* C10 witness: one connection got the 404 of an unrouted path, another
\* panicked on a POST to /files without content.
C10_Witness ==
    \E c, d \in Conns :
        /\ pc[c] = "done" /\ Unrouted(req[c].val.path) /\ out[c] = NotFoundText
        /\ pc[d] = "panicked" /\ fail[d] = "No content found"

=============================================================================
